---- MODULE Spec2Model ----
(***************************************************************************)
(* nestable-tailwind-variants: the condition resolver of src/resolver.ts   *)
(* (resolveConditions, lines 82-128) and the style function that ntv()     *)
(* returns around it (lines 163-189).                                      *)
(*                                                                         *)
(* JavaScript values are tagged records, objects keep their entries in     *)
(* the order they were written, Object.entries lists them in own property  *)
(* key order, and property reads go through Object.prototype the way       *)
(* `obj[key]` and `key in obj` do.                                         *)
(***************************************************************************)
EXTENDS Integers, Sequences, FiniteSets, TLC

VARIABLES
  scheme,    \* the scheme object handed to ntv()
  pc,        \* "init" before ntv(), then "ready" or "rejected"
  cache,     \* the Map of getCachedTwMerge: a set of <<config, merge function>>
  mergeFn,   \* the reconciler the style function closes over
  arg,       \* the argument of the latest styleFn call
  resolved,  \* what resolveConditions did in the latest call
  output,    \* what the latest styleFn call did
  calls,     \* history: the styleFn calls made so far, oldest first
  invocations, \* the calls of resolveConditions in progress, taken step by step
  merged,    \* a function made by mergeNtv: its style functions, its state
  lookups,   \* history: the getCachedTwMerge calls made so far, oldest first
  factory    \* the defaultOptions captured by createNtv and createMergeNtv

vars == <<scheme, pc, cache, mergeFn, arg, resolved, output, calls, invocations, merged,
          lookups, factory>>

-----------------------------------------------------------------------------
(* JavaScript values *)

Undefined == [t |-> "undefined"]
Null == [t |-> "null"]
Bool(b) == [t |-> "boolean", b |-> b]
Num(n) == [t |-> "number", n |-> n]
Str(s) == [t |-> "string", s |-> s]
Arr(a) == [t |-> "array", a |-> a]
Fn(name) == [t |-> "function", name |-> name]
Obj(e) == [t |-> "object", e |-> e]
Entry(k, v) == [k |-> k, v |-> v]

typeof(value) ==
  IF value.t \in {"null", "array", "object"} THEN "object" ELSE value.t

isArray(value) == value.t = "array"

\* a test for the prefix alone, whatever follows it
isBooleanConditionPrefixOnly(key) ==
  \/ Len(key) >= 2 /\ SubSeq(key, 1, 2) = "is"
  \/ Len(key) >= 6 /\ SubSeq(key, 1, 6) = "allows"

\* a truthiness test that takes every defined value for true
ToBooleanDefined(value) == value.t # "undefined"

\* ToBoolean, as `if (propValue)` applies it
ToBoolean(value) ==
  CASE value.t = "undefined" -> FALSE
    [] value.t = "null" -> FALSE
    [] value.t = "boolean" -> value.b
    [] value.t = "number" -> value.n # 0
    [] value.t = "string" -> value.s # ""
    [] OTHER -> TRUE

OwnKeys(obj) == {obj.e[i].k : i \in DOMAIN obj.e}

GetOwn(obj, key) == obj.e[CHOOSE i \in DOMAIN obj.e : obj.e[i].k = key].v

\* the properties every object literal inherits
ObjectPrototypeKeys ==
  {"constructor", "toString", "valueOf", "hasOwnProperty", "__proto__"}

ObjectPrototypeGet(key) ==
  IF key = "__proto__" THEN Obj(<<>>) ELSE Fn(key)

\* `key in obj`
HasProperty(obj, key) == key \in OwnKeys(obj) \cup ObjectPrototypeKeys

\* `obj[key]`
Get(obj, key) ==
  IF key \in OwnKeys(obj) THEN GetOwn(obj, key)
  ELSE IF key \in ObjectPrototypeKeys THEN ObjectPrototypeGet(key)
  ELSE Undefined

-----------------------------------------------------------------------------
(* resolveConditions *)

isPlainObject(value) ==
  typeof(value) = "object" /\ value # Null /\ ~isArray(value)

UpperCase ==
  {"A", "B", "C", "D", "E", "F", "G", "H", "I", "J", "K", "L", "M",
   "N", "O", "P", "Q", "R", "S", "T", "U", "V", "W", "X", "Y", "Z"}

\* /^<prefix>[A-Z]/.test(key)
TestPrefixUpper(prefix, key) ==
  /\ Len(key) > Len(prefix)
  /\ SubSeq(key, 1, Len(prefix)) = prefix
  /\ SubSeq(key, Len(prefix) + 1, Len(prefix) + 1) \in UpperCase

isBooleanCondition(key) ==
  TestPrefixUpper("is", key) \/ TestPrefixUpper("allows", key)

\* the comparison against the key's name without the dollar sign
isReservedUndollared(propValue) == propValue = Str("default")

\* a check that also rejects a missing value
isReservedOrMissing(propValue) == propValue \in {Str("$default"), Undefined}

\* propValue === '$default'
isReserved(propValue) == propValue = Str("$default")

\* typeof propValue === 'string' && propValue in value
variantMatched(propValue, value) ==
  typeof(propValue) = "string" /\ HasProperty(value, propValue.s)

\* a lookup that always reads the fallback entry
selectedKeyDefault(matched, propValue) == "$default"

\* matched ? propValue : '$default'
selectedKey(matched, propValue) ==
  IF matched THEN propValue.s ELSE "$default"

Digits == {"0", "1", "2", "3", "4", "5", "6", "7", "8", "9"}

\* a canonical numeric string: an integer index among property keys
isIntegerIndex(key) ==
  /\ Len(key) >= 1
  /\ \A i \in 1..Len(key) : SubSeq(key, i, i) \in Digits
  /\ Len(key) = 1 \/ SubSeq(key, 1, 1) # "0"

DigitValue(c) ==
  CASE c = "0" -> 0 [] c = "1" -> 1 [] c = "2" -> 2 [] c = "3" -> 3
    [] c = "4" -> 4 [] c = "5" -> 5 [] c = "6" -> 6 [] c = "7" -> 7
    [] c = "8" -> 8 [] c = "9" -> 9

RECURSIVE ToIndex(_)
ToIndex(key) ==
  IF Len(key) = 0 THEN 0
  ELSE 10 * ToIndex(SubSeq(key, 1, Len(key) - 1))
         + DigitValue(SubSeq(key, Len(key), Len(key)))

\* the order in which Object.entries and the rest element enumerate own
\* properties: integer indices ascending, then the other keys as written
OwnPropertyOrder(entries) ==
  SortSeq(SelectSeq(entries, LAMBDA en : isIntegerIndex(en.k)),
          LAMBDA a, b : ToIndex(a.k) < ToIndex(b.k))
    \o SelectSeq(entries, LAMBDA en : ~isIntegerIndex(en.k))

\* { $base, $default, ...conditions }, then Object.entries(conditions): the
\* own entries but the two reserved, in own property key order
conditionsOf(obj) ==
  OwnPropertyOrder(SelectSeq(obj.e, LAMBDA en : en.k \notin {"$base", "$default"}))

\* $default unshifted whether or not a condition matched
unshiftDefaultAlways(classes, hasMatchedCondition, base, default) ==
  <<base, default>> \o classes

\* the two unshift calls in the opposite order
unshiftBaseThenDefault(classes, hasMatchedCondition, base, default) ==
  (IF ~hasMatchedCondition THEN <<default>> ELSE <<>>) \o <<base>> \o classes

\* unshift calls that skip an undefined $default or $base
unshiftDefined(classes, hasMatchedCondition, base, default) ==
  (IF base # [t |-> "undefined"] THEN <<base>> ELSE <<>>)
    \o (IF ~hasMatchedCondition /\ default # [t |-> "undefined"]
        THEN <<default>> ELSE <<>>)
    \o classes

\* the two unshift calls after the loop
unshiftDefaultAndBase(classes, hasMatchedCondition, base, default) ==
  <<base>> \o (IF ~hasMatchedCondition THEN <<default>> ELSE <<>>) \o classes

\* What a call of resolveConditions did: it returned classes or threw the
\* error naming key.  pushed lists, per entry of conditions, what the loop
\* pushed for it; the code keeps no such list, the properties read it.
Return(classes, pushed) ==
  [threw |-> FALSE, key |-> "", classes |-> classes, pushed |-> pushed]

Throw(key) == [threw |-> TRUE, key |-> key, classes |-> <<>>, pushed |-> <<>>]

RECURSIVE resolveConditions(_, _)

\* a helper that resolves a nested scheme against an empty props bag
toClassValuesWithoutProps(value, p) ==
  IF isPlainObject(value) THEN resolveConditions(value, Obj(<<>>))
  ELSE Return(<<value>>, <<>>)

toClassValues(value, p) ==
  IF isPlainObject(value) THEN resolveConditions(value, p)
  ELSE Return(<<value>>, <<>>)

\* a loop body that pushes the value of a key that is neither boolean-named
\* nor a mapping when the prop is truthy
forBodyPushingPlainValues(key, value, p) ==
  LET propValue == Get(p, key) IN
    IF isReserved(propValue)
    THEN [threw |-> TRUE, key |-> key, push |-> <<>>, matched |-> FALSE]
    ELSE IF isBooleanCondition(key)
    THEN
      IF ToBoolean(propValue)
      THEN LET r == toClassValues(value, p)
           IN [threw |-> r.threw, key |-> r.key, push |-> r.classes,
               matched |-> TRUE]
      ELSE [threw |-> FALSE, key |-> "", push |-> <<>>, matched |-> FALSE]
    ELSE IF isPlainObject(value)
    THEN LET matched == variantMatched(propValue, value)
             r == toClassValues(Get(value, selectedKey(matched, propValue)), p)
         IN [threw |-> r.threw, key |-> r.key, push |-> r.classes,
             matched |-> matched]
    ELSE IF ToBoolean(propValue)
    THEN [threw |-> FALSE, key |-> "", push |-> <<value>>, matched |-> TRUE]
    ELSE [threw |-> FALSE, key |-> "", push |-> <<>>, matched |-> FALSE]

\* one iteration of the for loop: what it pushes, whether it sets
\* hasMatchedCondition, or the key it throws for
forBody(key, value, p) ==
  LET propValue == Get(p, key) IN
    IF isReserved(propValue)
    THEN [threw |-> TRUE, key |-> key, push |-> <<>>, matched |-> FALSE]
    ELSE IF isBooleanCondition(key)
    THEN
      IF ToBoolean(propValue)
      THEN LET r == toClassValues(value, p)
           IN [threw |-> r.threw, key |-> r.key, push |-> r.classes,
               matched |-> TRUE]
      ELSE [threw |-> FALSE, key |-> "", push |-> <<>>, matched |-> FALSE]
    ELSE IF isPlainObject(value)
    THEN LET matched == variantMatched(propValue, value)
             r == toClassValues(Get(value, selectedKey(matched, propValue)), p)
         IN [threw |-> r.threw, key |-> r.key, push |-> r.classes,
             matched |-> matched]
    ELSE [threw |-> FALSE, key |-> "", push |-> <<>>, matched |-> FALSE]

RECURSIVE forEntries(_, _, _, _, _, _)

\* the for loop from entry i on, with the locals classes / hasMatchedCondition
forEntries(conditions, i, p, classes, hasMatchedCondition, pushed) ==
  IF i > Len(conditions)
  THEN [threw |-> FALSE, key |-> "", classes |-> classes,
        hasMatchedCondition |-> hasMatchedCondition, pushed |-> pushed]
  ELSE
    LET it == forBody(conditions[i].k, conditions[i].v, p) IN
      IF it.threw
      THEN [threw |-> TRUE, key |-> it.key, classes |-> <<>>,
            hasMatchedCondition |-> hasMatchedCondition, pushed |-> <<>>]
      ELSE forEntries(conditions, i + 1, p, classes \o it.push,
                      hasMatchedCondition \/ it.matched, Append(pushed, it.push))

resolveConditions(obj, p) ==
  LET base == Get(obj, "$base")
      default == Get(obj, "$default")
      loop == forEntries(conditionsOf(obj), 1, p, <<>>, FALSE, <<>>)
  IN
    IF loop.threw THEN Throw(loop.key)
    ELSE Return(unshiftDefaultAndBase(loop.classes, loop.hasMatchedCondition,
                                      base, default),
                loop.pushed)

-----------------------------------------------------------------------------
(* Inputs: the schemes a behaviour starts from and the props bags it is    *)
(* called with.  Literals are named after their role and the nesting      *)
(* height of their level, so that a level's own fragments are told apart  *)
(* from those of the levels nested in it.                                  *)

MaxDepth == 1
MaxCalls == 3

Lit(role, d) == Str(role \o ToString(d))

OptEntry(key, values) == {<<>>} \cup {<<Entry(key, v)>> : v \in values}

PickA(d) ==
  Obj(<<Entry("$base", Lit("base", d)), Entry("$default", Lit("default", d)),
        Entry("isA", Lit("isA", d))>>)

PickB(d) ==
  Obj(<<Entry("$default", Lit("default", d)),
        Entry("v", Obj(<<Entry("$default", Lit("v.default", d)),
                         Entry("p", Lit("v.p", d))>>))>>)

PickC(d) ==
  IF d = 0 THEN Obj(<<>>)
  ELSE Obj(<<Entry("allowsB", Lit("allowsB", d)),
             Entry("v", Obj(<<Entry("p", PickA(d - 1))>>))>>)

\* the nested schemes a level of height d may contain
Nested(d) == IF d = 0 THEN {} ELSE {PickA(d - 1), PickB(d - 1), PickC(d - 1)}

NestedDefault(d) == IF d = 0 THEN {} ELSE {PickA(d - 1)}

Mappings(d) ==
  {Obj(dflt \o p) :
     dflt \in OptEntry("$default", {Lit("v.default", d)} \cup NestedDefault(d)),
     p \in OptEntry("p", {Lit("v.p", d)} \cup Nested(d))}

CondEntries(d) ==
  {Entry("isA", x) : x \in {Lit("isA", d)} \cup Nested(d)}
    \cup {Entry("allowsB", Lit("allowsB", d))}
    \cup {Entry("v", m) : m \in Mappings(d) \cup {Lit("v", d)}}

CondSeqs(d) ==
  {<<>>} \cup {<<e>> : e \in CondEntries(d)}
    \cup {pr \in CondEntries(d) \X CondEntries(d) : pr[1].k # pr[2].k}

Level(d) ==
  {Obj(b \o f \o c) :
     b \in OptEntry("$base", {Lit("base", d)}),
     f \in OptEntry("$default", {Lit("default", d)} \cup NestedDefault(d)),
     c \in CondSeqs(d)}

RejectedSchemes ==
  {Obj(<<Entry("class", Str("invalid"))>>),
   Obj(<<Entry("$base", Lit("base", 0)), Entry("className", Str("invalid"))>>),
   Obj(<<Entry("isA", Lit("isA", 0)), Entry("className", Undefined)>>)}

\* a scheme whose nested level has conditions named class and className
SlotKeyedScheme ==
  Obj(<<Entry("$base", Lit("base", 1)),
        Entry("isA", Obj(<<Entry("class", Obj(<<Entry("extra", Lit("class.extra", 0))>>)),
                           Entry("className", Obj(<<Entry("extra", Lit("className.extra", 0))>>))>>))>>)

\* a two-entry mapping under key, its literals named after key
MappingFor(key) ==
  Obj(<<Entry("$default", Str(key \o ".default")), Entry("p", Str(key \o ".p"))>>)

\* schemes with keys at the edges of the naming rules: integer indices,
\* names that start like a boolean condition, a mapping under a boolean
\* name, mapping keys spelled like booleans
EdgeSchemes ==
  {Obj(<<Entry("v", MappingFor("v")), Entry("1", MappingFor("1"))>>),
   Obj(<<Entry("$base", Lit("base", 0)), Entry("isA", Lit("isA", 0)),
         Entry("2", MappingFor("2")), Entry("1", MappingFor("1"))>>),
   Obj(<<Entry("isA", MappingFor("isA"))>>),
   Obj(<<Entry("$default", Lit("default", 0)),
         Entry("v", Obj(<<Entry("$default", Str("v.default")),
                          Entry("true", Str("v.true")),
                          Entry("false", Str("v.false"))>>))>>)}
    \cup {Obj(<<Entry("$default", Lit("default", 0)), Entry(key, MappingFor(key))>>) :
            key \in {"isolated", "is", "allows"}}
    \cup {Obj(<<Entry("$default", Lit("default", 0)), Entry("v", x),
                Entry("isA", Lit("isA", 0))>>) :
            x \in {Arr(<<Str("v.a"), Str("v.b")>>), Undefined, Null}}

EdgeArgs ==
  {Obj(<<Entry(key, x)>>) : key \in {"isolated", "is", "allows", "isA"},
                            x \in {Bool(TRUE), Str("p")}}
    \cup {Obj(<<Entry("v", x)>>) : x \in {Bool(FALSE), Str("true"), Num(1)}}
    \cup {Obj(<<Entry("1", Str("p")), Entry("v", Str("p"))>>),
          Obj(<<Entry("1", Str("$default")), Entry("v", Str("$default"))>>)}

Schemes ==
  UNION {Level(d) : d \in 0..MaxDepth} \cup RejectedSchemes \cup {SlotKeyedScheme}
    \cup EdgeSchemes

\* marks a key the bag does not have
Absent == [t |-> "absent"]

Bag(isA, allowsB, v) ==
  Obj(  (IF isA = Absent THEN <<>> ELSE <<Entry("isA", isA)>>)
     \o (IF allowsB = Absent THEN <<>> ELSE <<Entry("allowsB", allowsB)>>)
     \o (IF v = Absent THEN <<>> ELSE <<Entry("v", v)>>))

Falsy == {Bool(FALSE), Undefined, Null, Num(0), Str("")}

PropsBags ==
  {Bag(a, b, v) : a \in {Absent, Bool(TRUE), Bool(FALSE)},
                  b \in {Absent, Bool(TRUE)},
                  v \in {Absent, Str("p"), Str("q")}}
    \cup {Bag(a, Absent, v) : a \in Falsy, v \in {Absent, Str("p")}}
    \cup {Bag(Str("$default"), Absent, v) : v \in {Absent, Str("p")}}
    \cup {Bag(a, Absent, Str("$default")) : a \in {Absent, Bool(TRUE)}}
    \cup {Bag(Absent, Str("$default"), Absent)}
    \cup {Bag(a, Absent, v) : a \in {Absent, Bool(TRUE)},
                                v \in {Str("toString"), Bool(TRUE)}}

WithSlot(bag, key, value) == Obj(<<Entry(key, value)>> \o bag.e)

Args ==
  PropsBags
    \cup {WithSlot(Bag(Bool(TRUE), Absent, Str("p")), "class", Str("extra")),
          WithSlot(Bag(Absent, Absent, Absent), "className", Str("extra")),
          WithSlot(Bag(Bool(TRUE), Absent, Absent), "className", Str("extra"))}
    \cup EdgeArgs

TracedSchemes ==
  {PickA(1), PickB(1), PickC(1), PickA(0), SlotKeyedScheme} \cup RejectedSchemes

TracedArgs ==
  {Bag(Absent, Absent, Absent), Bag(Bool(TRUE), Absent, Str("p")),
   Bag(Str("$default"), Absent, Absent),
   Bag(Absent, Absent, Str("$default")),
   WithSlot(Bag(Bool(TRUE), Absent, Str("p")), "class", Str("extra"))}

MaxInvocations == 2
MaxMerged == 2
MaxLookups == 4

\* the style functions handed to mergeNtv: ntv(scheme, options) for a few
\* schemes, with the reconciler ntv selected
MergeSchemes ==
  {PickA(0), PickB(0), Obj(<<Entry("$base", Str("override"))>>)}

MergeStyleFns ==
  {[scheme |-> sch, mergeFn |-> fn] :
     sch \in MergeSchemes, fn \in {"twMerge", "twJoin"}}

RECURSIVE SeqsUpTo(_, _)
SeqsUpTo(S, n) ==
  IF n = 0 THEN {<<>>}
  ELSE LET shorter == SeqsUpTo(S, n - 1)
       IN shorter \cup {Append(q, x) : q \in shorter, x \in S}

MergeArgs ==
  {Bag(Absent, Absent, Absent), Bag(Bool(TRUE), Absent, Str("p")),
   Bag(Absent, Absent, Str("$default")),
   WithSlot(Bag(Absent, Absent, Str("p")), "class", Str("extra"))}

StepSchemes ==
  {PickB(1), PickC(1),
   Obj(<<Entry("$default", Lit("default", 1)), Entry("isA", PickB(0))>>)}

StepArgs ==
  {Bag(Absent, Absent, Absent), Bag(Bool(TRUE), Bool(TRUE), Str("p")),
   Bag(Bool(TRUE), Absent, Str("$default")),
   Bag(Absent, Absent, Str("__proto__"))}

Config(id) == [t |-> "object", e |-> <<>>, id |-> id]

DefaultOptions == [twMerge |-> Undefined, twMergeConfig |-> Undefined]

Options ==
  {DefaultOptions,
   [twMerge |-> Bool(FALSE), twMergeConfig |-> Undefined],
   [twMerge |-> Undefined, twMergeConfig |-> Config("A")],
   [twMerge |-> Bool(TRUE), twMergeConfig |-> Undefined],
   [twMerge |-> Bool(TRUE), twMergeConfig |-> Config("B")],
   [twMerge |-> Bool(FALSE), twMergeConfig |-> Config("A")]}

\* the options handed to createNtv and createMergeNtv
FactoryOptions ==
  {[twMerge |-> Bool(FALSE), twMergeConfig |-> Undefined],
   [twMerge |-> Undefined, twMergeConfig |-> Config("B")]}

OptionArgs ==
  {Bag(Absent, Absent, Absent),
   WithSlot(Bag(Absent, Absent, Absent), "class", Str("extra"))}

\* config objects with the same content and different identities
Configs == {Config("A"), Config("B"), Config("C")}

-----------------------------------------------------------------------------
(* ntv and the style function *)

NoCall == Return(<<>>, <<>>)
NoMerge == [styleFns |-> <<>>]

\* createNtv / createMergeNtv have not been called: no options captured
NoFactory == [ntv |-> <<>>, mergeNtv |-> <<>>]
NoOutput == [threw |-> FALSE, fn |-> "", args |-> <<>>]

\* a call left by the error thrown for `key`: no reconciler is invoked and
\* nothing is returned
Raised(key) == [threw |-> TRUE, fn |-> "", args |-> <<>>, error |-> key]

Start(schemes) ==
  /\ scheme \in schemes
  /\ pc = "init"
  /\ cache = {}
  /\ mergeFn = ""
  /\ arg = Obj(<<>>)
  /\ resolved = NoCall
  /\ output = NoOutput
  /\ calls = <<>>
  /\ invocations = <<>>
  /\ merged = NoMerge
  /\ lookups = <<>>
  /\ factory = NoFactory

\* extendTailwindMerge(config) returns a new function on every invocation;
\* the serial number is its identity
extendTailwindMerge(config) ==
  "extended:" \o config.id \o "#"
    \o ToString(1 + Cardinality({i \in DOMAIN lookups : lookups[i].extended}))

\* cache.get(config): the entries stored under this config object
cacheGet(config) == {en \in cache : en[1] = config}

\* cache.set(config, fn): a Map holds one value per key
cacheSet(config, fn) == {en \in cache : en[1] # config} \cup {<<config, fn>>}

\* a getCachedTwMerge without the `if (!cached)` test: every call extends
\* and stores the new function
getCachedTwMergeAlwaysExtending(config) ==
  LET created == extendTailwindMerge(config)
  IN [fn |-> created, cache |-> cacheSet(config, created),
      lookups |-> Append(lookups, [config |-> config, fn |-> created,
                                   extended |-> TRUE])]

\* getCachedTwMerge(config): the function returned, the cache afterwards and
\* the history of lookups with this one added
getCachedTwMerge(config) ==
  IF cacheGet(config) # {}
  THEN LET cached == (CHOOSE en \in cacheGet(config) : TRUE)[2]
       IN [fn |-> cached, cache |-> cache,
           lookups |-> Append(lookups, [config |-> config, fn |-> cached,
                                        extended |-> FALSE])]
  ELSE LET created == extendTailwindMerge(config)
       IN [fn |-> created, cache |-> cacheSet(config, created),
           lookups |-> Append(lookups, [config |-> config, fn |-> created,
                                        extended |-> TRUE])]

\* a call of getCachedTwMerge(config) on its own
GetCachedTwMerge(config) ==
  /\ Len(lookups) < MaxLookups
  /\ LET got == getCachedTwMerge(config)
     IN cache' = got.cache /\ lookups' = got.lookups
  /\ UNCHANGED <<scheme, pc, mergeFn, arg, resolved, output, calls, invocations,
                 merged, factory>>

\* an ntv() that selects the reconciler first and validates the scheme after
NtvThrowsAfterSelecting ==
  /\ pc = "init"
  /\ HasProperty(scheme, "class") \/ HasProperty(scheme, "className")
  /\ pc' = "rejected"
  /\ mergeFn' = "twMerge"
  /\ UNCHANGED <<scheme, cache, arg, resolved, output, calls, invocations, merged, lookups, factory>>

\* ntv() throws on a scheme with a `class` or `className` property
NtvThrows ==
  /\ pc = "init"
  /\ HasProperty(scheme, "class") \/ HasProperty(scheme, "className")
  /\ pc' = "rejected"
  /\ UNCHANGED <<scheme, cache, mergeFn, arg, resolved, output, calls, invocations, merged, lookups, factory>>

\* an ntv() that merges whatever the twMerge option says
NtvIgnoringTwMergeOption(options) ==
  /\ pc = "init"
  /\ ~HasProperty(scheme, "class")
  /\ ~HasProperty(scheme, "className")
  /\ IF ToBoolean(options.twMergeConfig)
     THEN LET got == getCachedTwMerge(options.twMergeConfig)
          IN mergeFn' = got.fn /\ cache' = got.cache /\ lookups' = got.lookups
     ELSE mergeFn' = "twMerge" /\ UNCHANGED <<cache, lookups>>
  /\ pc' = "ready"
  /\ UNCHANGED <<scheme, arg, resolved, output, calls, invocations, merged, factory>>

\* ntv(scheme, options) selects the reconciler and returns styleFn
Ntv(options) ==
  /\ pc = "init"
  /\ ~HasProperty(scheme, "class")
  /\ ~HasProperty(scheme, "className")
  /\ LET usesTwMerge == IF options.twMerge = Undefined THEN TRUE
                        ELSE ToBoolean(options.twMerge)
     IN IF usesTwMerge
        THEN IF ToBoolean(options.twMergeConfig)
             THEN LET got == getCachedTwMerge(options.twMergeConfig)
                  IN mergeFn' = got.fn /\ cache' = got.cache
                       /\ lookups' = got.lookups
             ELSE mergeFn' = "twMerge" /\ UNCHANGED <<cache, lookups>>
        ELSE mergeFn' = "twJoin" /\ UNCHANGED <<cache, lookups>>
  /\ pc' = "ready"
  /\ UNCHANGED <<scheme, arg, resolved, output, calls, invocations, merged, factory>>

\* props passed on with class and className still in them
restPropsKeepingSlots(a) == a

\* { class: slotClass, className: slotClassName, ...props }
restProps(a) ==
  Obj(SelectSeq(a.e, LAMBDA en : en.k \notin {"class", "className"}))

\* a style function that strips its argument and the scheme in place:
\* `delete` on the caller's objects where the code destructures into new ones
StyleFnInPlace(a, limit) ==
  /\ pc = "ready"
  /\ Len(calls) < limit
  /\ LET slotClass == Get(a, "class")
         slotClassName == Get(a, "className")
         props == Obj(SelectSeq(a.e, LAMBDA en : en.k \notin {"class", "className"}))
         resolvedClasses == resolveConditions(scheme, props)
     IN /\ arg' = props
        /\ scheme' = Obj(SelectSeq(scheme.e,
                                   LAMBDA en : en.k \notin {"$base", "$default"}))
        /\ resolved' = resolvedClasses
        /\ output' = IF resolvedClasses.threw
                     THEN Raised(resolvedClasses.key)
                     ELSE [threw |-> FALSE, fn |-> mergeFn,
                           args |-> resolvedClasses.classes
                                      \o <<slotClass, slotClassName>>]
        /\ calls' = Append(calls, [arg |-> a, resolved |-> resolvedClasses])
  /\ UNCHANGED <<pc, cache, mergeFn, invocations, merged, lookups, factory>>

\* a style function that reconciles the resolved fragments alone and adds
\* class / className to the reconciled string
StyleFnAppendingAfter(a, limit) ==
  /\ pc = "ready"
  /\ Len(calls) < limit
  /\ LET slotClass == Get(a, "class")
         slotClassName == Get(a, "className")
         resolvedClasses == resolveConditions(scheme, restProps(a))
     IN /\ arg' = a
        /\ resolved' = resolvedClasses
        /\ output' = IF resolvedClasses.threw
                     THEN Raised(resolvedClasses.key)
                     ELSE [threw |-> FALSE, fn |-> mergeFn,
                           args |-> resolvedClasses.classes,
                           appended |-> <<slotClass, slotClassName>>]
        /\ calls' = Append(calls, [arg |-> a, resolved |-> resolvedClasses])
  /\ UNCHANGED <<scheme, pc, cache, mergeFn, invocations, merged, lookups, factory>>

\* a style function that hands class / className over before the fragments
StyleFnSlotsFirst(a, limit) ==
  /\ pc = "ready"
  /\ Len(calls) < limit
  /\ LET slotClass == Get(a, "class")
         slotClassName == Get(a, "className")
         resolvedClasses == resolveConditions(scheme, restProps(a))
     IN /\ arg' = a
        /\ resolved' = resolvedClasses
        /\ output' = IF resolvedClasses.threw
                     THEN Raised(resolvedClasses.key)
                     ELSE [threw |-> FALSE, fn |-> mergeFn,
                           args |-> <<slotClass, slotClassName>>
                                      \o resolvedClasses.classes]
        /\ calls' = Append(calls, [arg |-> a, resolved |-> resolvedClasses])
  /\ UNCHANGED <<scheme, pc, cache, mergeFn, invocations, merged, lookups, factory>>

\* a style function that remembers a thrown error: once a call threw, every
\* later call throws the same error
StyleFnSticky(a, limit) ==
  /\ pc = "ready"
  /\ Len(calls) < limit
  /\ LET slotClass == Get(a, "class")
         slotClassName == Get(a, "className")
         failed == {i \in DOMAIN calls : calls[i].resolved.threw}
         resolvedClasses ==
           IF failed # {}
           THEN calls[CHOOSE i \in failed : TRUE].resolved
           ELSE resolveConditions(scheme, restProps(a))
     IN /\ arg' = a
        /\ resolved' = resolvedClasses
        /\ output' = IF resolvedClasses.threw
                     THEN Raised(resolvedClasses.key)
                     ELSE [threw |-> FALSE, fn |-> mergeFn,
                           args |-> resolvedClasses.classes
                                      \o <<slotClass, slotClassName>>]
        /\ calls' = Append(calls, [arg |-> a, resolved |-> resolvedClasses])
  /\ UNCHANGED <<scheme, pc, cache, mergeFn, invocations, merged, lookups, factory>>

\* styleFn(a): resolve the scheme, hand the fragments to the reconciler.
\* limit caps the length of the history.
StyleFn(a, limit) ==
  /\ pc = "ready"
  /\ Len(calls) < limit
  /\ LET slotClass == Get(a, "class")
         slotClassName == Get(a, "className")
         resolvedClasses == resolveConditions(scheme, restProps(a))
     IN /\ arg' = a
        /\ resolved' = resolvedClasses
        /\ output' = IF resolvedClasses.threw
                     THEN Raised(resolvedClasses.key)
                     ELSE [threw |-> FALSE, fn |-> mergeFn,
                           args |-> resolvedClasses.classes
                                      \o <<slotClass, slotClassName>>]
        /\ calls' = Append(calls, [arg |-> a, resolved |-> resolvedClasses])
  /\ UNCHANGED <<scheme, pc, cache, mergeFn, invocations, merged, lookups, factory>>

\* createNtv(defaultOptions) captures defaultOptions and returns configuredNtv
CreateNtv(defaultOptions) ==
  /\ factory.ntv = <<>>
  /\ factory' = [factory EXCEPT !.ntv = <<defaultOptions>>]
  /\ UNCHANGED <<scheme, pc, cache, mergeFn, arg, resolved, output, calls,
                 invocations, merged, lookups>>

\* configuredNtv(scheme) returns ntv(scheme, defaultOptions)
ConfiguredNtv ==
  /\ factory.ntv # <<>>
  /\ Ntv(factory.ntv[1])

-----------------------------------------------------------------------------
(* mergeNtv, mergeNtvWithOptions, createMergeNtv *)

\* fn(props) for a style function made by ntv
callStyleFn(fn, a) ==
  LET resolvedClasses == resolveConditions(fn.scheme, restProps(a)) IN
    IF resolvedClasses.threw
    THEN Raised(resolvedClasses.key)
    ELSE [threw |-> FALSE, fn |-> fn.mergeFn,
          args |-> resolvedClasses.classes \o <<Get(a, "class"), Get(a, "className")>>]

StartMerge ==
  /\ scheme = Obj(<<>>)
  /\ pc = "init"
  /\ cache = {}
  /\ mergeFn = ""
  /\ arg = Obj(<<>>)
  /\ resolved = NoCall
  /\ output = NoOutput
  /\ calls = <<>>
  /\ invocations = <<>>
  /\ merged \in {[styleFns |-> fns, pc |-> "init", mergeFn |-> "",
                   arg |-> Obj(<<>>), received |-> <<>>, styleResults |-> <<>>,
                   output |-> NoOutput] :
                    fns \in SeqsUpTo(MergeStyleFns, MaxMerged) \ {<<>>}}
  /\ lookups = <<>>
  /\ factory = NoFactory

\* mergeNtvWithOptions(...styleFns)(options): createMergedStyleFn selects
\* the reconciler and returns mergedStyleFn.  mergeNtv passes no options,
\* createMergeNtv(defaultOptions) passes defaultOptions.
MergeNtvWithOptions(options) ==
  /\ merged.styleFns # <<>>
  /\ merged.pc = "init"
  /\ LET usesTwMerge == IF options.twMerge = Undefined THEN TRUE
                        ELSE ToBoolean(options.twMerge)
     IN IF usesTwMerge
        THEN IF ToBoolean(options.twMergeConfig)
             THEN LET got == getCachedTwMerge(options.twMergeConfig)
                  IN /\ merged' = [merged EXCEPT !.pc = "ready", !.mergeFn = got.fn]
                     /\ cache' = got.cache
                     /\ lookups' = got.lookups
             ELSE /\ merged' = [merged EXCEPT !.pc = "ready", !.mergeFn = "twMerge"]
                  /\ UNCHANGED <<cache, lookups>>
        ELSE /\ merged' = [merged EXCEPT !.pc = "ready", !.mergeFn = "twJoin"]
             /\ UNCHANGED <<cache, lookups>>
  /\ UNCHANGED <<scheme, pc, mergeFn, arg, resolved, output, calls, invocations, factory>>

\* mergeNtv(...styleFns) returns mergeNtvWithOptions(...styleFns)()
MergeNtv == MergeNtvWithOptions(DefaultOptions)

\* createMergeNtv(defaultOptions) captures defaultOptions and returns
\* configuredMergeNtv
CreateMergeNtv(defaultOptions) ==
  /\ factory.mergeNtv = <<>>
  /\ factory' = [factory EXCEPT !.mergeNtv = <<defaultOptions>>]
  /\ UNCHANGED <<scheme, pc, cache, mergeFn, arg, resolved, output, calls,
                 invocations, merged, lookups>>

\* configuredMergeNtv(...styleFns) returns
\* mergeNtvWithOptions(...styleFns)(defaultOptions)
ConfiguredMergeNtv ==
  /\ factory.mergeNtv # <<>>
  /\ MergeNtvWithOptions(factory.mergeNtv[1])

\* what a call mergedStyleFn(a) leaves behind, given the outcome of each
\* fn(props), were it called: the functions are called in order and
\* `received` keeps what each function that was called got.  If one throws,
\* map() stops there and the error leaves mergedStyleFn: styleResults is
\* never bound and the reconciler is not called.  Otherwise the results go
\* to the reconciler in the order of the functions, then class, className.
mergedStyleFnAfter(a, props, results) ==
  LET slotClass == Get(a, "class")
      slotClassName == Get(a, "className")
      failed == {i \in DOMAIN results : results[i].threw}
      reached == IF failed = {} THEN Len(results)
                 ELSE CHOOSE i \in failed : \A j \in failed : i <= j
  IN [merged EXCEPT
        !.pc = "called",
        !.arg = a,
        !.received = [i \in 1..reached |-> props],
        !.styleResults = IF failed = {} THEN results ELSE <<>>,
        !.output =
          IF failed # {}
          THEN results[reached]
          ELSE [threw |-> FALSE, fn |-> merged.mergeFn,
                args |-> results \o <<slotClass, slotClassName>>]]

\* the same for a merged function that catches the error of an inner
\* function, leaves its result out and reconciles the others
mergedStyleFnAfterSkippingFailed(a, props, results) ==
  LET kept == SelectSeq(results, LAMBDA r : ~r.threw)
  IN [merged EXCEPT
        !.pc = "called",
        !.arg = a,
        !.received = [i \in DOMAIN results |-> props],
        !.styleResults = kept,
        !.output = [threw |-> FALSE, fn |-> merged.mergeFn,
                    args |-> kept \o <<Get(a, "class"), Get(a, "className")>>]]

\* a merged function that hands the results over last function first
MergedStyleFnReversed(a) ==
  /\ merged.styleFns # <<>>
  /\ merged.pc \in {"ready", "called"}
  /\ merged' = mergedStyleFnAfter(a, restProps(a),
                 [i \in DOMAIN merged.styleFns |->
                    callStyleFn(merged.styleFns[Len(merged.styleFns) + 1 - i],
                                restProps(a))])
  /\ UNCHANGED <<scheme, pc, cache, mergeFn, arg, resolved, output, calls, invocations, lookups, factory>>

\* a merged function that catches the error of an inner function
MergedStyleFnSkippingFailed(a) ==
  /\ merged.styleFns # <<>>
  /\ merged.pc \in {"ready", "called"}
  /\ merged' = mergedStyleFnAfterSkippingFailed(a, restProps(a),
                 [i \in DOMAIN merged.styleFns |->
                    callStyleFn(merged.styleFns[i], restProps(a))])
  /\ UNCHANGED <<scheme, pc, cache, mergeFn, arg, resolved, output, calls, invocations, lookups, factory>>

\* a merged function that passes its whole argument, class and className
\* included, to the inner functions
MergedStyleFnPassingSlots(a) ==
  /\ merged.styleFns # <<>>
  /\ merged.pc \in {"ready", "called"}
  /\ merged' = mergedStyleFnAfter(a, a,
                 [i \in DOMAIN merged.styleFns |->
                    callStyleFn(merged.styleFns[i], a)])
  /\ UNCHANGED <<scheme, pc, cache, mergeFn, arg, resolved, output, calls, invocations, lookups, factory>>

\* mergedStyleFn(a): class and className are taken out of the argument and
\* every style function is called with the rest props
MergedStyleFn(a) ==
  /\ merged.styleFns # <<>>
  /\ merged.pc \in {"ready", "called"}
  /\ merged' = mergedStyleFnAfter(a, restProps(a),
                 [i \in DOMAIN merged.styleFns |->
                    callStyleFn(merged.styleFns[i], restProps(a))])
  /\ UNCHANGED <<scheme, pc, cache, mergeFn, arg, resolved, output, calls, invocations, lookups, factory>>

-----------------------------------------------------------------------------
(* resolveConditions step by step: every call in progress has its own      *)
(* stack of activations, and an activation its own locals                  *)

\* the activation a call resolveConditions(obj, props) starts with
Activation(obj) ==
  [base |-> Get(obj, "$base"), default |-> Get(obj, "$default"),
   conditions |-> conditionsOf(obj), i |-> 1,
   classes |-> <<>>, hasMatchedCondition |-> FALSE]

Top(stack) == stack[Len(stack)]

ReplaceTop(stack, activation) == [stack EXCEPT ![Len(stack)] = activation]

Outcome(r) == [threw |-> r.threw, key |-> r.key, classes |-> r.classes]

Finished(invocation, r) ==
  [invocation EXCEPT !.stack = <<>>, !.done = TRUE, !.outcome = Outcome(r)]

\* toClassValues(value) inside activation top, whose hasMatchedCondition is
\* already set: a nested call, or the push of [value] and the next entry
pushClassValues(stack, top, value) ==
  IF isPlainObject(value)
  THEN Append(ReplaceTop(stack, top), Activation(value))
  ELSE ReplaceTop(stack, [top EXCEPT !.classes = Append(@, value), !.i = @ + 1])

\* styleFn(a) up to its call of resolveConditions(scheme, props)
Invoke(a) ==
  /\ pc = "ready"
  /\ Len(invocations) < MaxInvocations
  /\ invocations' = Append(invocations,
                           [props |-> restProps(a),
                            stack |-> <<Activation(scheme)>>,
                            done |-> FALSE,
                            outcome |-> Outcome(NoCall)])
  /\ UNCHANGED <<scheme, pc, cache, mergeFn, arg, resolved, output, calls, merged, lookups, factory>>

\* one iteration of the for loop in the innermost activation of call id
LoopStep(id) ==
  /\ id \in DOMAIN invocations
  /\ ~invocations[id].done
  /\ LET inv == invocations[id]
         top == Top(inv.stack)
     IN /\ top.i <= Len(top.conditions)
        /\ LET key == top.conditions[top.i].k
               value == top.conditions[top.i].v
               propValue == Get(inv.props, key)
               skipped == [top EXCEPT !.i = @ + 1]
           IN invocations' =
                [invocations EXCEPT ![id] =
                   IF isReserved(propValue) THEN Finished(inv, Throw(key))
                   ELSE IF isBooleanCondition(key)
                   THEN IF ToBoolean(propValue)
                        THEN [inv EXCEPT !.stack =
                                pushClassValues(inv.stack,
                                  [top EXCEPT !.hasMatchedCondition = TRUE],
                                  value)]
                        ELSE [inv EXCEPT !.stack = ReplaceTop(inv.stack, skipped)]
                   ELSE IF isPlainObject(value)
                   THEN LET matched == variantMatched(propValue, value)
                        IN [inv EXCEPT !.stack =
                              pushClassValues(inv.stack,
                                [top EXCEPT !.hasMatchedCondition = @ \/ matched],
                                Get(value, selectedKey(matched, propValue)))]
                   ELSE [inv EXCEPT !.stack = ReplaceTop(inv.stack, skipped)]]
  /\ UNCHANGED <<scheme, pc, cache, mergeFn, arg, resolved, output, calls, merged, lookups, factory>>

\* an end of loop that reads hasMatchedCondition of the first call in
\* progress, as if the flag were shared by all calls
ReturnStepSharedFlag(id) ==
  /\ id \in DOMAIN invocations
  /\ ~invocations[id].done
  /\ LET inv == invocations[id]
         top == Top(inv.stack)
         running == {j \in DOMAIN invocations : ~invocations[j].done}
         first == CHOOSE j \in running : \A k \in running : j <= k
         flag == Top(invocations[first].stack).hasMatchedCondition
     IN /\ top.i > Len(top.conditions)
        /\ LET classes == unshiftDefaultAndBase(top.classes, flag,
                                                top.base, top.default)
           IN invocations' =
                [invocations EXCEPT ![id] =
                   IF Len(inv.stack) = 1
                   THEN Finished(inv, Return(classes, <<>>))
                   ELSE LET rest == SubSeq(inv.stack, 1, Len(inv.stack) - 1)
                            caller == Top(rest)
                        IN [inv EXCEPT !.stack =
                              ReplaceTop(rest,
                                [caller EXCEPT !.classes = @ \o classes,
                                               !.i = @ + 1])]]
  /\ UNCHANGED <<scheme, pc, cache, mergeFn, arg, resolved, output, calls, merged, lookups, factory>>

\* the end of the loop in the innermost activation of call id: the two
\* unshift calls and the return, into the caller's push or out of the call
ReturnStep(id) ==
  /\ id \in DOMAIN invocations
  /\ ~invocations[id].done
  /\ LET inv == invocations[id]
         top == Top(inv.stack)
     IN /\ top.i > Len(top.conditions)
        /\ LET classes == unshiftDefaultAndBase(top.classes,
                                                top.hasMatchedCondition,
                                                top.base, top.default)
           IN invocations' =
                [invocations EXCEPT ![id] =
                   IF Len(inv.stack) = 1
                   THEN Finished(inv, Return(classes, <<>>))
                   ELSE LET rest == SubSeq(inv.stack, 1, Len(inv.stack) - 1)
                            caller == Top(rest)
                        IN [inv EXCEPT !.stack =
                              ReplaceTop(rest,
                                [caller EXCEPT !.classes = @ \o classes,
                                               !.i = @ + 1])]]
  /\ UNCHANGED <<scheme, pc, cache, mergeFn, arg, resolved, output, calls, merged, lookups, factory>>

\* Spec: ntv(scheme) for every scheme, then one call of the style function
\* with any argument
Init == Start(Schemes)

Next ==
  \/ NtvThrows
  \/ Ntv(DefaultOptions)
  \/ \E a \in Args : StyleFn(a, 1)

Spec == Init /\ [][Next]_vars

\* SpecCalls: ntv(scheme, options) for a few schemes, then up to MaxCalls
\* calls of the style function in a row
InitCalls == Start(TracedSchemes)

NextCalls ==
  \/ NtvThrows
  \/ \E options \in Options : Ntv(options)
  \/ \E a \in TracedArgs : StyleFn(a, MaxCalls)

SpecCalls == InitCalls /\ [][NextCalls]_vars

\* SpecSteps: up to MaxInvocations calls of resolveConditions on one scheme,
\* their loop iterations and returns interleaved in every order
InitSteps == Start(StepSchemes)

NextSteps ==
  \/ Ntv(DefaultOptions)
  \/ \E a \in StepArgs : Invoke(a)
  \/ \E id \in 1..MaxInvocations : LoopStep(id)
  \/ \E id \in 1..MaxInvocations : ReturnStep(id)

SpecSteps == InitSteps /\ [][NextSteps]_vars

\* SpecMerge: mergeNtv on up to MaxMerged style functions, then one call of
\* the merged function
InitMerge == StartMerge

NextMerge ==
  \/ \E options \in Options : MergeNtvWithOptions(options)
  \/ \E a \in MergeArgs : MergedStyleFn(a)

SpecMerge == InitMerge /\ [][NextMerge]_vars

\* one function made by ntv or createNtv and one made by mergeNtv,
\* mergeNtvWithOptions or createMergeNtv, each called repeatedly
InitOptions == StartMerge /\ Len(merged.styleFns) = 1

NextOptions ==
  \/ \E options \in Options : Ntv(options)
  \/ \E defaultOptions \in FactoryOptions : CreateNtv(defaultOptions)
  \/ ConfiguredNtv
  \/ \E a \in OptionArgs : StyleFn(a, MaxCalls)
  \/ \E options \in Options : MergeNtvWithOptions(options)
  \/ MergeNtv
  \/ \E defaultOptions \in FactoryOptions : CreateMergeNtv(defaultOptions)
  \/ ConfiguredMergeNtv
  \/ \E a \in OptionArgs : MergedStyleFn(a)

SpecOptions == InitOptions /\ [][NextOptions]_vars

\* getCachedTwMerge called directly and through ntv
InitCache == Start({Obj(<<>>)})

NextCache ==
  \/ \E config \in Configs : GetCachedTwMerge(config)
  \/ \E options \in Options : Ntv(options)

SpecCache == InitCache /\ [][NextCache]_vars

-----------------------------------------------------------------------------
(* Vocabulary of the properties.  They are stated of the level the style   *)
(* function resolves, scheme; every nested scheme of a scheme in Schemes   *)
(* is itself in Schemes and is resolved against the same props, so a       *)
(* property of the root level for every scheme is one of every level.      *)

Called == pc = "ready" /\ calls # <<>>

Returned == Called /\ ~resolved.threw

\* the props bag resolveConditions received in the latest call
P == restProps(arg)

HasOwn(obj, key) == key \in OwnKeys(obj)

Range(seq) == {seq[i] : i \in DOMAIN seq}

RECURSIVE Flatten(_)
Flatten(seqs) == IF seqs = <<>> THEN <<>> ELSE Head(seqs) \o Flatten(Tail(seqs))

\* the keys of the inputs named is[A-Z].. or allows[A-Z]..
BooleanKeys == {"isA", "allowsB"}

PropFalsy(key) == ~HasOwn(P, key) \/ Get(P, key) \in Falsy

PropTruthy(key) == ~PropFalsy(key)

\* the condition entries of the root level, in declaration order
Conds == conditionsOf(scheme)

IsVariantEntry(c) == c.k \notin BooleanKeys /\ c.v.t = "object"

\* props[key] is a string naming an own entry of the mapping
SelectsOwnEntry(c) ==
  /\ HasOwn(P, c.k)
  /\ Get(P, c.k).t = "string"
  /\ Get(P, c.k).s \in OwnKeys(c.v)

\* the resolution of a value: itself, or what its nested scheme resolves to
Resolution(value) ==
  IF value.t = "object" THEN resolveConditions(value, P).classes ELSE <<value>>

-----------------------------------------------------------------------------
(* C1: when no boolean condition key of a level has a truthy prop, the     *)
(* level's own $default is in the output, including when variant keys of  *)
(* the level matched: each variant key's prop is absent or names an entry *)
(* of its mapping.                                                         *)
C1_DefaultKeptWhenNoBooleanMatched ==
  (/\ Returned
   /\ HasOwn(scheme, "$default")
   /\ \A c \in Range(Conds) : c.k \in BooleanKeys => PropFalsy(c.k)
   /\ \A c \in Range(Conds) :
        IsVariantEntry(c) => ~HasOwn(P, c.k) \/ SelectsOwnEntry(c))
  => \E i \in DOMAIN resolved.classes :
       resolved.classes[i] = GetOwn(scheme, "$default")

(* C2: when a boolean condition key declared at a level has a truthy prop, *)
(* the level's own $default is no element of the level's output.           *)
C2_DefaultSuppressedByBoolean ==
  (/\ Returned
   /\ HasOwn(scheme, "$default")
   /\ \E c \in Range(Conds) : c.k \in BooleanKeys /\ PropTruthy(c.k))
  => \A i \in DOMAIN resolved.classes :
       resolved.classes[i] # GetOwn(scheme, "$default")

C2_Witness ==
  /\ Returned
  /\ HasOwn(scheme, "$default")
  /\ \E c \in Range(Conds) : c.k \in BooleanKeys /\ PropTruthy(c.k)
  /\ \E c \in Range(Conds) : IsVariantEntry(c)
  /\ Len(resolved.classes) >= 3

(* C3: for a boolean condition key whose prop is falsy (false, undefined,  *)
(* absent, "", 0, null) nothing of the key's branch is in the output, at   *)
(* any depth: the call does what it does on the scheme with every entry    *)
(* of that key removed, no fragment named after the key appears, and the   *)
(* loop pushed no element, placeholder or other, for the key.              *)
RECURSIVE Prune(_, _)

PruneValue(value, key) ==
  IF value.t = "object" THEN Prune(value, key) ELSE value

PruneMapping(mapping, key) ==
  Obj([i \in DOMAIN mapping.e |->
         Entry(mapping.e[i].k, PruneValue(mapping.e[i].v, key))])

\* the level without its entries of key, and so in every nested level
Prune(level, key) ==
  LET kept == SelectSeq(level.e, LAMBDA en : en.k # key) IN
    Obj([i \in DOMAIN kept |->
           IF kept[i].k \in {"$base", "$default"} THEN kept[i]
           ELSE IF kept[i].k \in BooleanKeys
           THEN Entry(kept[i].k, PruneValue(kept[i].v, key))
           ELSE IF kept[i].v.t = "object"
           THEN Entry(kept[i].k, PruneMapping(kept[i].v, key))
           ELSE kept[i]])

C3_FalsyBooleanEmitsNothing ==
  Called =>
    \A key \in BooleanKeys :
      PropFalsy(key) =>
        LET pruned == resolveConditions(Prune(scheme, key), P) IN
          /\ resolved.threw = pruned.threw
          /\ resolved.key = pruned.key
          /\ resolved.classes = pruned.classes
          /\ \A i \in DOMAIN resolved.classes :
               resolved.classes[i] \notin {Lit(key, d) : d \in 0..MaxDepth}
          /\ Returned =>
               \A i \in DOMAIN Conds : Conds[i].k = key => resolved.pushed[i] = <<>>

C3_Witness ==
  /\ Returned
  /\ \E i \in DOMAIN Conds :
       /\ Conds[i].k = "isA"
       /\ Conds[i].v.t = "object"
       /\ Conds[i].v.e # <<>>
       /\ HasOwn(P, "isA")
       /\ Get(P, "isA") \in {Num(0), Str(""), Null}
  /\ \E i \in DOMAIN Conds : resolved.pushed[i] # <<>>

(* C4: the output of a level is its $base, then its own $default when it   *)
(* is emitted, then the fragments the condition entries pushed, in order;  *)
(* the level's own $base and $default occur nowhere else in it.            *)
C4_BaseDefaultConditionsOrder ==
  Returned =>
    LET base == Get(scheme, "$base")
        default == Get(scheme, "$default")
        derived == Flatten(resolved.pushed)
    IN /\ Len(resolved.classes) >= 1
       /\ resolved.classes[1] = base
       /\ resolved.classes \in {<<base>> \o derived, <<base, default>> \o derived}
       /\ HasOwn(scheme, "$base") =>
            \A i \in DOMAIN resolved.classes : resolved.classes[i] = base => i = 1
       /\ HasOwn(scheme, "$default") =>
            \A i \in DOMAIN resolved.classes : resolved.classes[i] = default => i = 2

C4_Witness ==
  /\ Returned
  /\ HasOwn(scheme, "$base")
  /\ HasOwn(scheme, "$default")
  /\ Len(resolved.classes) >= 4
  /\ resolved.classes[2] = GetOwn(scheme, "$default")
  /\ \E i \in DOMAIN Conds : Conds[i].v.t = "object" /\ Len(resolved.pushed[i]) >= 2

(* C5: if props[k] is "$default" for a condition key k that occurs         *)
(* anywhere in the scheme, at any depth, the resolution raises.            *)
RECURSIVE KeysAnywhere(_)

KeysUnder(value) == IF value.t = "object" THEN KeysAnywhere(value) ELSE {}

\* the condition keys of a level and of every scheme nested in it
KeysAnywhere(level) ==
  LET conds == conditionsOf(level) IN
    {conds[i].k : i \in DOMAIN conds}
      \cup UNION {IF conds[i].k \in BooleanKeys THEN KeysUnder(conds[i].v)
                  ELSE IF conds[i].v.t = "object"
                  THEN UNION {KeysUnder(conds[i].v.e[j].v) : j \in DOMAIN conds[i].v.e}
                  ELSE {} : i \in DOMAIN conds}

RECURSIVE KeysEvaluated(_)

KeysEvaluatedUnder(value) ==
  IF value.t = "object" THEN KeysEvaluated(value) ELSE {}

KeysEvaluated(level) ==
  LET conds == conditionsOf(level) IN
    {conds[i].k : i \in DOMAIN conds}
      \cup UNION {IF conds[i].k \in BooleanKeys
                  THEN IF PropTruthy(conds[i].k)
                       THEN KeysEvaluatedUnder(conds[i].v) ELSE {}
                  ELSE IF conds[i].v.t = "object"
                  THEN LET value == Get(P, conds[i].k)
                           found == value.t = "string"
                                      /\ value.s \in OwnKeys(conds[i].v)
                                                       \cup ObjectPrototypeKeys
                       IN KeysEvaluatedUnder(
                            Get(conds[i].v, IF found THEN value.s ELSE "$default"))
                  ELSE {} : i \in DOMAIN conds}

C6_OnlySentinelRaises ==
  (Called /\ \A i \in DOMAIN P.e : P.e[i].v # Str("$default"))
  => ~resolved.threw

C6_Witness ==
  /\ Returned
  /\ \E c \in Range(Conds) : IsVariantEntry(c) /\ Get(P, c.k) = Str("q")
  /\ \E c \in Range(Conds) : c.k = "isA" /\ Get(P, "isA") = Bool(FALSE)

(* C7: when props[key] names an own entry of the mapping under a variant   *)
(* key, what the key contributes is exactly the resolution of that entry,  *)
(* and the mapping's own $default is not emitted.                          *)
C7_MatchedVariantEmitsItsEntry ==
  Returned =>
    \A i \in DOMAIN Conds :
      (IsVariantEntry(Conds[i]) /\ SelectsOwnEntry(Conds[i])) =>
        /\ resolved.pushed[i] = Resolution(GetOwn(Conds[i].v, Get(P, Conds[i].k).s))
        /\ (HasOwn(Conds[i].v, "$default") /\ GetOwn(Conds[i].v, "$default").t = "string")
             => \A j \in DOMAIN resolved.classes :
                  resolved.classes[j] # GetOwn(Conds[i].v, "$default")

C7_Witness ==
  /\ Returned
  /\ \E i \in DOMAIN Conds :
       /\ IsVariantEntry(Conds[i])
       /\ SelectsOwnEntry(Conds[i])
       /\ HasOwn(Conds[i].v, "$default")
       /\ GetOwn(Conds[i].v, Get(P, Conds[i].k).s).t = "object"
       /\ Len(resolved.pushed[i]) >= 2

(* C8: when a variant key is not matched (props[key] absent, undefined,    *)
(* not a string, or a string that is no key of the mapping), what the key  *)
(* contributes is the resolution of the mapping's own $default if it has   *)
(* one, and nothing otherwise.                                             *)
C8_UnmatchedVariantEmitsDefaultOrNothing ==
  Returned =>
    \A i \in DOMAIN Conds :
      (IsVariantEntry(Conds[i]) /\ ~SelectsOwnEntry(Conds[i])) =>
        resolved.pushed[i] =
          IF HasOwn(Conds[i].v, "$default")
          THEN Resolution(GetOwn(Conds[i].v, "$default"))
          ELSE <<>>

(* C9: resolving the empty scheme against the empty props yields the empty *)
(* sequence; a level with no $base, no $default and no emitting condition  *)
(* contributes no element.                                                 *)
NoEmittingCondition ==
  \A c \in Range(Conds) :
    /\ c.k \in BooleanKeys => PropFalsy(c.k)
    /\ IsVariantEntry(c) =>
         /\ ~HasOwn(c.v, "$default")
         /\ ~(Get(P, c.k).t = "string"
                /\ Get(P, c.k).s \in OwnKeys(c.v) \cup ObjectPrototypeKeys)

Bare == ~HasOwn(scheme, "$base") /\ ~HasOwn(scheme, "$default") /\ NoEmittingCondition

C9_BareLevelYieldsEmptySequence ==
  (Returned /\ Bare) => resolved.classes = <<>>

(* C9 as amended: the empty scheme against the empty props yields the two  *)
(* undefined placeholders of the absent $base and $default and no class;   *)
(* a level with no $base, no $default and no emitting condition (no truthy *)
(* boolean prop, no variant mapping that has a $default or has props[key]  *)
(* as a property) contributes undefined placeholders only.                 *)
C9_BareLevelYieldsPlaceholdersOnly ==
  (Returned /\ Bare) =>
    /\ Len(resolved.classes) >= 2
    /\ \A i \in DOMAIN resolved.classes : resolved.classes[i] = Undefined
    /\ (scheme = Obj(<<>>) /\ P = Obj(<<>>)) => resolved.classes = <<Undefined, Undefined>>

C9_Witness ==
  /\ Returned
  /\ scheme = Obj(<<>>)
  /\ P = Obj(<<>>)
  /\ resolved.classes = <<Undefined, Undefined>>

C11_CallLeavesSchemeAndPropsUnchanged ==
  [][pc = "ready" =>
       /\ scheme' = scheme
       /\ arg' = calls'[Len(calls')].arg]_vars

C11_Witness ==
  /\ Called
  /\ HasOwn(arg, "class")
  /\ HasOwn(scheme, "$base")
  /\ \E c \in Range(Conds) : c.k = "v" /\ c.v.t = "object" /\ HasOwn(c.v, "p")
  /\ arg = calls[Len(calls)].arg

(* C12: calls of resolveConditions in progress at the same time on one     *)
(* scheme, with equal or different props and their steps interleaved in    *)
(* any order, each end with the outcome the call has when it runs alone.   *)
C12_InterleavedCallsResolveAsAlone ==
  \A id \in DOMAIN invocations :
    invocations[id].done =>
      invocations[id].outcome =
        Outcome(resolveConditions(scheme, invocations[id].props))

C12_Witness ==
  /\ Len(invocations) = 2
  /\ ~invocations[1].done
  /\ Len(invocations[1].stack) = 2
  /\ Top(invocations[1].stack).hasMatchedCondition
       # invocations[1].stack[1].hasMatchedCondition
  /\ invocations[2].done
  /\ invocations[2].props # invocations[1].props
  /\ ~invocations[2].outcome.threw
  /\ Len(invocations[2].outcome.classes) > 2

(* C13: the recursion of resolveConditions is never deeper than the scheme *)
(* is nested, whatever the props hold.                                     *)
RECURSIVE NestingDepth(_)

Max(S) == CHOOSE x \in S : \A y \in S : y <= x

DepthUnder(value) == IF value.t = "object" THEN NestingDepth(value) ELSE 0

\* the levels of a scheme on its longest path: the level itself, then the
\* schemes under its boolean keys and in the entries of its variant mappings
NestingDepth(level) ==
  LET conds == SelectSeq(level.e, LAMBDA en : en.k \notin {"$base", "$default"})
  IN 1 + Max({0} \cup UNION {
           IF conds[i].k \in {"isA", "allowsB"} THEN {DepthUnder(conds[i].v)}
           ELSE IF conds[i].v.t = "object"
           THEN {DepthUnder(conds[i].v.e[j].v) : j \in DOMAIN conds[i].v.e}
           ELSE {} : i \in DOMAIN conds})

C13_RecursionWithinNestingDepth ==
  \A id \in DOMAIN invocations :
    Len(invocations[id].stack) <= NestingDepth(scheme)

(* C14: ntv raises when the top-level scheme has a key class or className, *)
(* whatever its value, before a reconciler is selected or cached and       *)
(* without returning a style function; for every other scheme it returns   *)
(* a style function.                                                       *)
HasSlotKey == HasOwn(scheme, "class") \/ HasOwn(scheme, "className")

C14_SlotKeyedSchemeRejectedAtCreation ==
  /\ pc = "rejected" => HasSlotKey /\ mergeFn = "" /\ cache = {} /\ calls = <<>>
  /\ pc = "ready" => ~HasSlotKey /\ mergeFn # ""
  /\ pc = "init" => IF HasSlotKey THEN ENABLED NtvThrows /\ ~ENABLED Ntv(DefaultOptions)
                    ELSE ENABLED Ntv(DefaultOptions) /\ ~ENABLED NtvThrows

C14_Witness ==
  /\ pc = "rejected"
  /\ HasOwn(scheme, "className")
  /\ GetOwn(scheme, "className") = Undefined

(* C15: the class and className entries of the argument have no influence  *)
(* on the resolution: two calls whose arguments differ in class and        *)
(* className only have the same resolver outcome.                          *)
WithoutSlots(a) == SelectSeq(a.e, LAMBDA en : en.k # "class" /\ en.k # "className")

C15_SlotsDoNotInfluenceResolution ==
  \A i, j \in DOMAIN calls :
    WithoutSlots(calls[i].arg) = WithoutSlots(calls[j].arg)
      => calls[i].resolved = calls[j].resolved

C15_Witness ==
  /\ scheme = SlotKeyedScheme
  /\ \E i, j \in DOMAIN calls :
       /\ calls[i].arg # calls[j].arg
       /\ WithoutSlots(calls[i].arg) = WithoutSlots(calls[j].arg)
       /\ Get(calls[i].arg, "class") = Str("extra")
       /\ Get(calls[i].arg, "isA") = Bool(TRUE)
       /\ ~calls[i].resolved.threw

(* C16: the sequence handed to the reconciler consists of the resolver's   *)
(* fragments only; class / className are added to the reconciled string    *)
(* afterwards.                                                             *)
C16_ReconcilerGetsFragmentsOnly ==
  Returned => output.args = resolved.classes

(* C16 as amended: class and className are handed to the reconciler with   *)
(* the resolved fragments, as its last two arguments: the resolver's       *)
(* fragments, then class, then className; nothing is added afterwards.     *)
C16_SlotsAreLastReconcilerArguments ==
  Returned =>
    /\ output.fn = mergeFn
    /\ DOMAIN output = {"threw", "fn", "args"}
    /\ output.args = resolved.classes \o <<Get(arg, "class"), Get(arg, "className")>>

C16_Witness ==
  /\ Returned
  /\ Get(arg, "class") = Str("extra")
  /\ Len(resolved.classes) >= 2
  /\ output.args[Len(output.args) - 1] = Str("extra")
  /\ output.args[Len(output.args)] = Undefined

(* C17: a function made by mergeNtv(f1, ..., fn) calls every fi with the   *)
(* same props, the argument without class and className, and hands the     *)
(* reconciler f1(props), ..., fn(props) in argument order, followed by     *)
(* class and className: a later function's classes come later.             *)
MergedReturned == merged.styleFns # <<>> /\ merged.pc = "called" /\ ~merged.output.threw

C17_MergedResultsInArgumentOrder ==
  MergedReturned =>
    LET n == Len(merged.styleFns)
        props == Obj(WithoutSlots(merged.arg))
    IN /\ Len(merged.output.args) = n + 2
       /\ \A i \in 1..n :
            merged.output.args[i] = callStyleFn(merged.styleFns[i], props)
       /\ merged.output.fn = merged.mergeFn

C17_Witness ==
  /\ MergedReturned
  /\ Len(merged.styleFns) = 2
  /\ merged.styleFns[1].scheme # merged.styleFns[2].scheme
  /\ merged.output.args[1] # merged.output.args[2]
  /\ HasOwn(merged.arg, "class")
  /\ merged.output.args[2].args[1] = Str("override")

(* C18: the fragments of sibling condition keys of a level appear in the   *)
(* declaration order of the keys, each key's fragments contiguous: after   *)
(* $base and $default the output is the keys' contributions, one after     *)
(* the other as the keys are written in the scheme.                        *)
\* what the resolver emits for one condition entry
Contribution(c) ==
  IF c.k \in BooleanKeys
  THEN IF PropTruthy(c.k) THEN Resolution(c.v) ELSE <<>>
  ELSE IF c.v.t = "object"
  THEN LET value == Get(P, c.k)
           found == value.t = "string"
                      /\ value.s \in OwnKeys(c.v) \cup ObjectPrototypeKeys
       IN Resolution(Get(c.v, IF found THEN value.s ELSE "$default"))
  ELSE <<>>

\* the condition entries of the root level as the scheme declares them
Declared == SelectSeq(scheme.e, LAMBDA en : en.k \notin {"$base", "$default"})

C18_SiblingFragmentsInDeclarationOrder ==
  Returned =>
    LET flat == Flatten([i \in DOMAIN Declared |-> Contribution(Declared[i])])
        n == Len(resolved.classes)
    IN /\ Len(flat) <= n
       /\ SubSeq(resolved.classes, n - Len(flat) + 1, n) = flat

(* C19: a key is handled as a boolean condition exactly when its name is   *)
(* is or allows followed by an uppercase letter, whatever the shape of its *)
(* value and the type of the prop; every other key, isolated, is and       *)
(* allows among them, is handled as a variant key.                         *)
C19_KindDecidedByNameAlone ==
  Returned =>
    \A i \in DOMAIN Conds : resolved.pushed[i] = Contribution(Conds[i])

C19_Witness ==
  /\ Returned
  /\ \E i \in DOMAIN Conds :
       /\ Conds[i].k \in {"isolated", "is", "allows"}
       /\ Get(P, Conds[i].k) = Bool(TRUE)
       /\ resolved.pushed[i] = <<Str(Conds[i].k \o ".default")>>

(* C20: a variant key matches only when props[key] is a string and that    *)
(* string is a key of the mapping; a boolean or other non-string value     *)
(* never matches, even against keys spelled true or false.  Matched, the   *)
(* key contributes the entry; unmatched, the mapping's $default.           *)
C20_VariantMatchesOwnStringKeyOnly ==
  Returned =>
    \A i \in DOMAIN Conds :
      IsVariantEntry(Conds[i]) =>
        resolved.pushed[i] =
          Resolution(IF SelectsOwnEntry(Conds[i])
                     THEN GetOwn(Conds[i].v, Get(P, Conds[i].k).s)
                     ELSE Get(Conds[i].v, "$default"))

(* C21: when no boolean condition of a level matched and the level's own   *)
(* $default is a nested scheme, the default emitted is the resolution of   *)
(* that scheme against the same props, not the raw object.  Stated for a   *)
(* level none of whose variant keys matched either, where the level's      *)
(* output is $base, the default, then the keys' contributions.             *)
NoVariantFound ==
  \A c \in Range(Conds) :
    IsVariantEntry(c) =>
      ~(Get(P, c.k).t = "string"
          /\ Get(P, c.k).s \in OwnKeys(c.v) \cup ObjectPrototypeKeys)

C21_NestedDefaultIsResolved ==
  (/\ Returned
   /\ HasOwn(scheme, "$default")
   /\ GetOwn(scheme, "$default").t = "object"
   /\ \A c \in Range(Conds) : c.k \in BooleanKeys => PropFalsy(c.k)
   /\ NoVariantFound)
  => resolved.classes =
       <<Get(scheme, "$base")>>
         \o resolveConditions(GetOwn(scheme, "$default"), P).classes
         \o Flatten(resolved.pushed)

C23_NestedDefaultSuppressedLocally ==
  Returned =>
    \A i \in DOMAIN Conds :
      (/\ Conds[i].k \in BooleanKeys
       /\ PropTruthy(Conds[i].k)
       /\ Conds[i].v.t = "object"
       /\ HasOwn(Conds[i].v, "$default")
       /\ GetOwn(Conds[i].v, "$default").t = "string")
      => ((\E j \in DOMAIN resolved.pushed[i] :
             resolved.pushed[i][j] = GetOwn(Conds[i].v, "$default"))
          <=> \A c \in Range(conditionsOf(Conds[i].v)) :
                c.k \in BooleanKeys => PropFalsy(c.k))

(* C24: the error of a sentinel violation names the first key k with       *)
(* props[k] = "$default" met in the depth-first, declaration-order         *)
(* traversal of the scheme.                                                *)
RECURSIVE FirstSentinelInEntries(_)
RECURSIVE FirstSentinelInValues(_)

FirstSentinelInLevel(level) ==
  FirstSentinelInEntries(
    SelectSeq(level.e, LAMBDA en : en.k \notin {"$base", "$default"}))

\* the first offending key under a condition entry, "" when there is none
FirstSentinelUnder(c) ==
  IF c.v.t # "object" THEN ""
  ELSE IF c.k \in BooleanKeys THEN FirstSentinelInLevel(c.v)
  ELSE FirstSentinelInValues(c.v.e)

FirstSentinelInEntries(entries) ==
  IF entries = <<>> THEN ""
  ELSE LET c == Head(entries)
           here == IF Get(P, c.k) = Str("$default") THEN c.k
                   ELSE FirstSentinelUnder(c)
       IN IF here # "" THEN here ELSE FirstSentinelInEntries(Tail(entries))

FirstSentinelInValues(entries) ==
  IF entries = <<>> THEN ""
  ELSE LET value == Head(entries).v
           here == IF value.t = "object" THEN FirstSentinelInLevel(value) ELSE ""
       IN IF here # "" THEN here ELSE FirstSentinelInValues(Tail(entries))

C24_ErrorNamesFirstKeyInDeclarationOrder ==
  (Called /\ resolved.threw) => resolved.key = FirstSentinelInLevel(scheme)

(* C26: the reconciler is handed the resolver's fragments in order, then   *)
(* the class value, then the className value: the two are the last         *)
(* arguments, after every fragment of the scheme.                          *)
C26_FragmentsThenClassThenClassName ==
  Returned =>
    LET n == Len(output.args)
        m == Len(resolved.classes)
    IN /\ n = m + 2
       /\ \A i \in 1..m : output.args[i] = resolved.classes[i]
       /\ output.args[n - 1] = Get(arg, "class")
       /\ output.args[n] = Get(arg, "className")

C26_Witness ==
  /\ Returned
  /\ scheme = Obj(<<Entry("$base", Lit("base", 0))>>)
  /\ Get(arg, "class") = Undefined
  /\ Get(arg, "className") = Str("extra")
  /\ output.fn = "twMerge"
  /\ output.args = <<Lit("base", 0), Undefined, Undefined, Str("extra")>>

(* C29: a key that is not boolean-named and whose value is no plain object *)
(* (a string, an array, undefined, null) contributes no element and does   *)
(* not change whether $default is emitted: the level resolves as it does   *)
(* without the key, whatever props[key] is, the sentinel excepted.         *)
IsInertEntry(c) == c.k \notin BooleanKeys /\ c.v.t # "object"

WithoutKey(level, key) == Obj(SelectSeq(level.e, LAMBDA en : en.k # key))

C29_PlainValuedKeyIsInert ==
  Returned =>
    \A i \in DOMAIN Conds :
      IsInertEntry(Conds[i]) =>
        /\ resolved.pushed[i] = <<>>
        /\ resolved.classes =
             resolveConditions(WithoutKey(scheme, Conds[i].k), P).classes

C29_Witness ==
  /\ Returned
  /\ \E i \in DOMAIN Conds :
       /\ IsInertEntry(Conds[i])
       /\ Conds[i].v.t = "array"
       /\ Get(P, Conds[i].k) = Str("p")
  /\ HasOwn(scheme, "$default")
  /\ resolved.classes = <<Undefined, GetOwn(scheme, "$default")>>

(* C25: a sentinel violation aborts the whole call of a merged function:   *)
(* the error of the first inner function that throws leaves the merged     *)
(* function unchanged, the functions after it are not called, no sequence  *)
(* of results is formed and the reconciler is not invoked.                 *)
MergedCalled == merged.styleFns # <<>> /\ merged.pc = "called"

\* the inner functions that throw for the props of the last call
Throwing ==
  {i \in DOMAIN merged.styleFns :
     resolveConditions(merged.styleFns[i].scheme,
                       Obj(WithoutSlots(merged.arg))).threw}

C25_SentinelAbortsMergedCall ==
  (MergedCalled /\ Throwing # {}) =>
    LET first == CHOOSE i \in Throwing : \A j \in Throwing : i <= j
        thrown == resolveConditions(merged.styleFns[first].scheme,
                                    Obj(WithoutSlots(merged.arg)))
    IN /\ merged.output.threw
       /\ merged.output.error = thrown.key
       /\ merged.output = callStyleFn(merged.styleFns[first],
                                      Obj(WithoutSlots(merged.arg)))
       /\ merged.output.fn = ""
       /\ merged.output.args = <<>>
       /\ merged.styleResults = <<>>
       /\ Len(merged.received) = first

C25_Witness ==
  /\ MergedCalled
  /\ Len(merged.styleFns) = 2
  /\ Throwing = {2}
  /\ merged.output.threw
  /\ merged.output.error = "v"
  /\ Len(merged.received) = 2

(* C28: a merged function passes its inner functions the props without     *)
(* class and className, so no inner function receives them, and hands the  *)
(* reconciler the two values exactly once, after all inner results, class  *)
(* before className.                                                       *)
C28_SlotsRemovedThenAppendedOnce ==
  MergedCalled =>
    /\ \A i \in DOMAIN merged.received :
         /\ ~HasOwn(merged.received[i], "class")
         /\ ~HasOwn(merged.received[i], "className")
    /\ ~merged.output.threw =>
         LET n == Len(merged.styleFns) IN
           /\ Len(merged.received) = n
           /\ SubSeq(merged.output.args, n + 1, Len(merged.output.args))
                = <<Get(merged.arg, "class"), Get(merged.arg, "className")>>
           /\ \A i \in 1..n :
                LET inner == merged.output.args[i].args
                IN SubSeq(inner, Len(inner) - 1, Len(inner))
                     = <<Undefined, Undefined>>

C28_Witness ==
  /\ MergedReturned
  /\ Len(merged.styleFns) = 2
  /\ Get(merged.arg, "class") = Str("extra")
  /\ merged.received[1] = Bag(Absent, Absent, Str("p"))
  /\ merged.output.args[3] = Str("extra")
  /\ merged.output.args[4] = Undefined

(* C27: the reconciler of a style function is chosen once, when ntv or     *)
(* mergeNtvWithOptions(...)(options) is called: twMerge: false selects the *)
(* plain join, twMerge true or omitted selects the merge made for          *)
(* twMergeConfig when one is given and the default merge otherwise; every  *)
(* later call of the function uses that reconciler; createNtv(o) and       *)
(* createMergeNtv(o) select as ntv and mergeNtvWithOptions do with o.      *)

\* fn is what `options` asks for, in the step that selects it
SelectedBy(options, fn) ==
  IF options.twMerge = Bool(FALSE) THEN fn = "twJoin"
  ELSE IF options.twMergeConfig # Undefined
  THEN /\ <<options.twMergeConfig, fn>> \in cache'
       /\ fn \notin {"twMerge", "twJoin"}
  ELSE fn = "twMerge"

C27_ReconcilerChosenOnceByOptions ==
  [][/\ \A options \in Options :
          /\ Ntv(options) => SelectedBy(options, mergeFn')
          /\ MergeNtvWithOptions(options) => SelectedBy(options, merged'.mergeFn)
     /\ pc = "ready" => pc' = "ready" /\ mergeFn' = mergeFn
     /\ merged.pc # "init" => merged'.pc # "init" /\ merged'.mergeFn = merged.mergeFn
     /\ \A a \in OptionArgs :
          /\ StyleFn(a, MaxCalls) => output'.fn = mergeFn
          /\ MergedStyleFn(a) => merged'.output.fn = merged.mergeFn
     /\ ConfiguredNtv => SelectedBy(factory.ntv[1], mergeFn')
     /\ ConfiguredMergeNtv => SelectedBy(factory.mergeNtv[1], merged'.mergeFn)
     /\ MergeNtv => merged'.mergeFn = "twMerge"
    ]_vars

C27_Witness ==
  /\ pc = "ready"
  /\ mergeFn = "twJoin"
  /\ Len(calls) = MaxCalls
  /\ output.fn = "twJoin"
  /\ factory.ntv = <<[twMerge |-> Bool(FALSE), twMergeConfig |-> Undefined]>>
  /\ factory.mergeNtv = <<[twMerge |-> Undefined, twMergeConfig |-> Config("B")]>>
  /\ merged.pc = "called"
  /\ <<Config("B"), merged.mergeFn>> \in cache
  /\ merged.output.fn = merged.mergeFn

(* C30: after any sequence of getCachedTwMerge calls the cache holds       *)
(* exactly one merge function per distinct config object: two calls with   *)
(* the same config return the identical function, extendTailwindMerge is   *)
(* invoked at most once per config, and an entry once stored is never      *)
(* removed or replaced.                                                    *)
C30_OneFunctionPerConfig ==
  /\ [](/\ cache = {<<lookups[i].config, lookups[i].fn>> : i \in DOMAIN lookups}
        /\ \A e1, e2 \in cache : e1[1] = e2[1] => e1 = e2
        /\ \A i, j \in DOMAIN lookups :
             lookups[i].config = lookups[j].config
               => /\ lookups[i].fn = lookups[j].fn
                  /\ (lookups[i].extended /\ lookups[j].extended) => i = j
             )
  /\ [][cache \subseteq cache']_vars

C30_Witness ==
  /\ Len(lookups) = MaxLookups
  /\ lookups[1].config = lookups[3].config
  /\ lookups[1].config # lookups[2].config
  /\ lookups[1].extended /\ lookups[2].extended /\ ~lookups[3].extended
  /\ lookups[1].fn = lookups[3].fn
  /\ lookups[1].fn # lookups[2].fn
  /\ Cardinality(cache) = 2

====
